---- MODULE Spec2Model ----
(***************************************************************************)
(* Model of simple-quagga's BarcodeScanner (src/src/barcode-scanner.ts):   *)
(* the start/stop lifecycle, the one-slot scanCode() request bridge, the   *)
(* per-frame callback and the overlay-clear timer, together with the       *)
(* parts of the quagga2 engine the scanner drives (init, start, pause,     *)
(* stop, onProcessed, offProcessed).                                       *)
(*                                                                         *)
(* Each action is one synchronous run of JavaScript: the part of an async  *)
(* method up to its first await, or the continuation after an await.       *)
(* Continuations queued by settling the deferred promise are microtasks;   *)
(* frames, timers and engine completions are macrotasks and wait for the   *)
(* microtask queue to drain.                                               *)
(***************************************************************************)
EXTENDS Integers, FiniteSets, Sequences, TLC

\* ---- bounds of the model ----
MaxCalls == 2        \* scanCode() calls that may be accepted and unfinished at once
MaxInFlight == 2     \* start() or stop() calls awaiting the engine at once
MaxCallbacks == 2    \* frame callbacks registered with the engine at once
MaxTimers == 2       \* overlay-clear timers outstanding at once
MaxWindow == 2       \* engine initialisations / stylesheets counted per window
MaxBuilderCalls == 4 \* calls made on one BarcodeScannerBuilder
MaxWaiters == 2      \* scanCode() calls of the polling scanner waiting at once

\* ---- program constants ----
\* result.codeResult.startInfo.error < 0.12, in hundredths
Threshold == 12

CallIds == 1..MaxCalls
NoCall == 0

\* decode error metrics of a frame, in hundredths (0.05, 0.11, 0.12, 0.20)
ErrorValues == {5, 11, 12, 20}
\* decoded text of a frame; "" is the empty string
Codes == {"", "A", "B"}
NoResult == [kind |-> "null"]
\* QuaggaJSResultObject: codeResult present or not, its code and error
FrameResults ==
  {NoResult}
    \cup {[kind |-> "result", codeResult |-> FALSE, code |-> "", error |-> 0]}
    \cup {[kind |-> "result", codeResult |-> TRUE, code |-> c, error |-> e] :
            c \in Codes, e \in ErrorValues}

\* CodeValidatorCallback configured through the builder: none, or one that
\* accepts exactly the code "A"
Validators == {"none", "onlyA"}
\* draw styles configured through the builder
DrawItems == {"located", "detected", "scanline"}
DrawConfigs == {{}, {"detected"}, DrawItems}
\* the builder's domTarget: a usable selector or the empty string
Targets == {"", "#viewport"}

\* ReaderType values passed to addReader
CODE_128 == "code_128_reader"
ReaderTypes == {CODE_128, "ean_reader"}
\* QuaggaJSStyle arguments of the withDraw* methods; NoStyle is undefined
NoStyle == [color |-> "", lineWidth |-> 0]
StyleArgs == {[color |-> "green", lineWidth |-> 2], [color |-> "red", lineWidth |-> 3]}
\* imagesType / imagesQuality arguments of withResultImages; "" is undefined
ImageArgs == {[type |-> "", quality |-> ""], [type |-> "image/jpeg", quality |-> "0.5"]}
\* callbacks passed to withCodeValidator
ValidatorArgs == {"onlyA", "onlyB"}

\* candidate locations (result.boxes) of a frame; NoBox is an absent result.box
Boxes == {1, 2}
NoBox == 0

VARIABLES
  builder,           \* the BarcodeScannerBuilder's private fields
  built,             \* the scanners returned by build(), in order
  blog,              \* history: the calls made on the builder
  autoCss,           \* config: this.autoCss
  codeValidator,     \* config: this.codeValidator
  drawStyles,        \* config: which of the three draw styles are set
  domTarget,         \* config: quaggaConfig.inputStream.target
  isStarted,         \* this.isStarted
  isAutoCssApplied,  \* this.isAutoCssApplied
  scanDeferred,      \* this.scanDeferred: NoCall, or the call whose handle it holds
  calls,             \* per scanCode() call: state of its deferred promise
  timers,            \* overlay-clear timers scheduled and not yet fired
  overlay,           \* what is drawn on the debug overlay canvas
  starting,          \* start() calls awaiting Quagga.init
  stopping,          \* stop() calls awaiting Quagga.stop
  qStreaming,        \* engine: video acquisition is running
  qDetecting,        \* engine: locating and decoding frames (started, not paused)
  qCallbacks,        \* engine: number of subscriptions to 'processed'
  window,            \* history: engine inits and stylesheets since the last stop() call
  session,           \* history: the same since the started flag was last cleared
  everFailed,        \* history: some start() call has failed
  sheetsEver,        \* history: style elements appended to the document so far
  staleTimers,       \* history: timers scheduled before the latest accepted scanCode()
  overlayLatest,     \* history: the overlay shows a frame of the latest accepted scanCode()
  lastOp,            \* history: the step just taken and its outcome
  fin,               \* one frame callback invocation: the state and frame it is given
  fout,              \* one frame callback invocation: what it leaves behind
  vp,                \* ScanResult scanner: its fields (config, ViewportElement, flags)
  vdom,              \* ScanResult scanner: the document (viewport element, style sheets)
  veng,              \* ScanResult scanner: the engine, calls in flight, timers, overlay
  vreq,              \* ScanResult scanner: per scanCode() call, its deferred promise
  vcap,              \* ScanResult scanner: capture promises of the latest ScanResult
  vlast,             \* ScanResult scanner: history, the step just taken
  pl,                \* polling scanner: its fields (flags, numWaiting, lastResult)
  pw,                \* polling scanner: per scanCode() call, where it is in its loop
  pq,                \* polling scanner: the engine, calls in flight, overlay
  plast              \* polling scanner: history, the step just taken

bvars == <<builder, built, blog>>

svars == <<autoCss, codeValidator, drawStyles, domTarget, isStarted,
           isAutoCssApplied, scanDeferred, calls, timers, overlay, starting,
           stopping, qStreaming, qDetecting, qCallbacks, window, session,
           everFailed, sheetsEver, staleTimers, overlayLatest, lastOp>>

fvars == <<fin, fout>>

vvars == <<vp, vdom, veng, vreq, vcap, vlast>>

pvars == <<pl, pw, pq, plast>>

vars == <<bvars, svars, fvars, vvars, pvars>>

config == <<autoCss, codeValidator, drawStyles, domTarget>>

Op(op, out, id, code) ==
  [op |-> op, out |-> out, id |-> id, code |-> code, res |-> NoResult, vcalls |-> 0]
\* vcalls is the number of times the frame's callbacks invoked the validator
FrameOp(out, id, result, vcalls) ==
  [op |-> "frame", out |-> out, id |-> id, code |-> "", res |-> result, vcalls |-> vcalls]

NoCount == [inits |-> 0, sheets |-> 0]

\* a call whose deferred promise is unsettled, settled by a frame, settled by stop()
Pending(c) == {id \in CallIds : c[id].st = "pending"}
ContinuationQueued == \E id \in CallIds : calls[id].st \in {"resolved", "rejected"}
FrameSettled == \E id \in CallIds : calls[id].st = "resolved"

\* new BarcodeScannerBuilder(domTarget)
NewBuilder ==
  [domTarget |-> "#viewport",
   readerTypes |-> <<>>,
   autoCss |-> FALSE,
   resultImages |-> FALSE,
   resultImagesType |-> "",
   resultImagesQuality |-> "",
   codeValidator |-> "none",
   draw |-> [i \in DrawItems |-> NoStyle]]

\* history of a fresh builder: no method called yet
NoCalls ==
  [op |-> "new", n |-> 0, added |-> <<>>,
   autoCss |-> [called |-> FALSE, enabled |-> FALSE],
   resultImages |-> [called |-> FALSE, enabled |-> FALSE, type |-> "", quality |-> ""],
   codeValidator |-> "none",
   draw |-> [i \in DrawItems |-> [called |-> FALSE, enabled |-> FALSE, style |-> NoStyle]]]

InitBuilderVars ==
  /\ builder = NewBuilder
  /\ built = <<>>
  /\ blog = NoCalls

\* no frame callback invocation under study
NoFrameIn ==
  [deferred |-> NoCall, validator |-> "none", styles |-> {}, overlay |-> {},
   result |-> NoResult, boxes |-> {}, box |-> NoBox]
NotRun ==
  [ran |-> FALSE, calls |-> [id \in CallIds |-> [st |-> "unused", res |-> NoResult]],
   overlay |-> {}, detecting |-> TRUE, vcalls |-> 0, out |-> "", located |-> {}]

InitFrameVars ==
  /\ fin = NoFrameIn
  /\ fout = NotRun

\* viewport targets: undefined, a selector of the viewport div, a selector
\* that document.querySelector cannot parse
ViewportTargets == {"", "#viewport", "#"}

\* the ScanResult scanner before its constructor has run
InitViewportVars ==
  /\ vp = [built |-> FALSE, target |-> "#viewport", autoCss |-> FALSE,
           resultImages |-> FALSE, ViewportElement |-> FALSE, isStarted |-> FALSE,
           isAutoCssApplied |-> FALSE, scanDeferred |-> NoCall]
  /\ vdom = [present |-> FALSE, display |-> "", sheets |-> 0]
  /\ veng = [streaming |-> FALSE, detecting |-> FALSE, callbacks |-> 0,
             starting |-> 0, stopping |-> 0, timers |-> 0, overlay |-> {}]
  /\ vreq = [id \in CallIds |-> [st |-> "unused", res |-> NoResult]]
  /\ vcap = [image |-> "undefined", overlay |-> "undefined"]
  /\ vlast = [op |-> "init", out |-> "", code |-> ""]

\* scanCode() calls of the polling scanner
Waiters == 1..MaxWaiters
NoWaiter == 0

\* the polling scanner after construction, auto CSS not requested
InitPollVars ==
  /\ pl = [autoCss |-> FALSE, isStarted |-> FALSE, isScanning |-> FALSE,
           isAutoCssApplied |-> FALSE, numWaiting |-> 0, lastResult |-> NoResult]
  /\ pw = [w \in Waiters |-> [st |-> "idle", stopped |-> FALSE]]
  /\ pq = [streaming |-> FALSE, detecting |-> FALSE, callbacks |-> 0,
           starting |-> 0, stopping |-> 0, overlay |-> FALSE]
  /\ plast = [op |-> "init", out |-> "", w |-> NoWaiter, code |-> ""]

InitScannerVars ==
  /\ autoCss \in BOOLEAN
  /\ codeValidator \in Validators
  /\ drawStyles \in DrawConfigs
  /\ domTarget \in Targets
  /\ isStarted = FALSE
  /\ isAutoCssApplied = FALSE
  /\ scanDeferred = NoCall
  /\ calls = [id \in CallIds |-> [st |-> "unused", res |-> NoResult]]
  /\ timers = 0
  /\ overlay = {}
  /\ starting = 0
  /\ stopping = 0
  /\ qStreaming = FALSE
  /\ qDetecting = FALSE
  /\ qCallbacks = 0
  /\ window = NoCount
  /\ session = NoCount
  /\ everFailed = FALSE
  /\ sheetsEver = 0
  /\ staleTimers = 0
  /\ overlayLatest = FALSE
  /\ lastOp = Op("init", "", NoCall, "")

Init ==
  InitBuilderVars /\ InitScannerVars /\ InitFrameVars /\ InitViewportVars /\ InitPollVars

\* ---- pure parts of the scanner's methods ----

\* start() without its early return
StartNeverReturnsEarly(started) == FALSE

\* start(): "if (this.isStarted) return;"
StartReturnsEarly(started) == started

\* start() with a catch block that leaves the started flag as it is
StartCatchKeeps(started) == started

\* start(): the catch block's "this.isStarted = false"
StartCatch(started) == FALSE

\* stop() without its early return
StopNeverReturnsEarly(started) == FALSE

\* stop(): "if (!this.isStarted) return;"
StopReturnsEarly(started) == ~started

\* a finally block that leaves the handle in place
ScanFinallyKeeps(deferred) == deferred

\* scanCode(): the finally block's "this.scanDeferred = undefined"
ScanFinally(deferred) == NoCall

\* outcomes of document.querySelector(selector)
QueryOutcomes == {"found", "missing", "throws"}

\* start(): the auto CSS block.  The error thrown for a missing element is
\* caught by the enclosing try and replaced by the 'Invalid selector' error.
AutoCssStep(auto, applied, target, query, sheetOk) ==
  IF ~(auto /\ ~applied)
    THEN [err |-> "", appended |-> FALSE, applied |-> applied]
  ELSE IF target = ""
    THEN [err |-> "UndefinedTarget", appended |-> FALSE, applied |-> applied]
  ELSE IF query # "found"
    THEN [err |-> "InvalidSelector", appended |-> FALSE, applied |-> applied]
  ELSE IF ~sheetOk
    THEN [err |-> "NoStylesheet", appended |-> TRUE, applied |-> applied]
  ELSE [err |-> "", appended |-> TRUE, applied |-> TRUE]

\* scanCode() without its 'Already scanning for code' guard
ScanCodeGuardNoAlready(started, deferred) ==
  IF ~started THEN "NotStarted" ELSE "Accept"

\* scanCode() without its 'Scanner not started' guard
ScanCodeGuardNoStarted(started, deferred) ==
  IF deferred # NoCall THEN "Already" ELSE "Accept"

\* scanCode(): the two guards before the request is created
ScanCodeGuard(started, deferred) ==
  IF ~started THEN "NotStarted"
  ELSE IF deferred # NoCall THEN "Already"
  ELSE "Accept"

\* a decode counted as present whatever its text
HasCodeResultOnly(result) == result.codeResult

\* onQuaggaProcessed(): "result.codeResult && result.codeResult.code"
HasCode(result) == result.codeResult /\ result.code # ""

\* the quality gate with "<=" in place of "<"
QualifiesAtThreshold(result) ==
  /\ result.codeResult
  /\ result.code # ""
  /\ result.error <= Threshold

\* onQuaggaProcessed(): the quality gate on the frame's decode
Qualifies(result) ==
  /\ HasCode(result)
  /\ result.error < Threshold

\* a frame callback that never consults the validator
ValidatorIgnored(validator, code) == FALSE

\* onQuaggaProcessed(): "this.codeValidator && !this.codeValidator(code)"
ValidatorRejects(validator, code) ==
  /\ validator # "none"
  /\ ~(validator = "onlyA" /\ code = "A")

\* settling a deferred promise: only the first resolve or reject has effect
Settle(c, id, st, result) ==
  IF id # NoCall /\ c[id].st = "pending"
    THEN [c EXCEPT ![id] = [st |-> st, res |-> result]]
    ELSE c

\* the early return taken only for a frame without result
FrameIgnoredOnlyNull(deferred, result) == result = NoResult

\* onQuaggaProcessed(): "if (!this.scanDeferred || !result) return;"
FrameIgnored(deferred, result) == deferred = NoCall \/ result = NoResult

\* "this.codeValidator && ...": the validator runs when one is configured
ValidatorCalled(validator) == validator # "none"

\* onQuaggaProcessed() without its final "this.pause()"
OnQuaggaProcessedNoPause(s, deferred, validator, styles, result) ==
  LET vc == IF validator # "none" THEN s.vcalls + 1 ELSE s.vcalls IN
  IF deferred = NoCall \/ result = NoResult
    THEN [s EXCEPT !.out = IF s.out = "" THEN "ignored" ELSE s.out]
  ELSE IF ~(result.codeResult /\ result.code # "" /\ result.error < Threshold)
    THEN [s EXCEPT !.overlay = styles \cap {"located"},
                   !.out = IF s.out = "" THEN "notQualified" ELSE s.out]
  ELSE IF validator # "none" /\ ~(validator = "onlyA" /\ result.code = "A")
    THEN [s EXCEPT !.overlay = styles \cap {"located"}, !.vcalls = vc,
                   !.out = IF s.out = "" THEN "validatorRejected" ELSE s.out]
  ELSE [calls |-> Settle(s.calls, deferred, "resolved", result),
        overlay |-> styles,
        detecting |-> s.detecting,
        vcalls |-> vc,
        out |-> IF s.out = "" THEN "accepted" ELSE s.out]

\* onQuaggaProcessed(result), on the state record
\* s = [calls, overlay, detecting, vcalls, out]; out keeps the first
\* invocation's outcome, vcalls counts the validator's invocations
OnQuaggaProcessed(s, deferred, validator, styles, result) ==
  LET note(o) == IF s.out = "" THEN o ELSE s.out
      located == styles \cap {"located"}
      vc == IF ValidatorCalled(validator) THEN s.vcalls + 1 ELSE s.vcalls
  IN
  IF FrameIgnored(deferred, result)
    THEN [s EXCEPT !.out = note("ignored")]
  ELSE IF ~Qualifies(result)
    THEN [s EXCEPT !.overlay = located, !.out = note("notQualified")]
  ELSE IF ValidatorRejects(validator, result.code)
    THEN [s EXCEPT !.overlay = located, !.vcalls = vc, !.out = note("validatorRejected")]
  ELSE [calls |-> Settle(s.calls, deferred, "resolved", result),
        overlay |-> located \cup (styles \cap {"detected", "scanline"}),
        detecting |-> FALSE,
        vcalls |-> vc,
        out |-> note("accepted")]

\* the engine publishes a processed frame to each of its n subscriptions in turn
RECURSIVE Publish(_, _, _, _, _, _)
Publish(n, s, deferred, validator, styles, result) ==
  IF n = 0 THEN s
  ELSE Publish(n - 1, OnQuaggaProcessed(s, deferred, validator, styles, result),
               deferred, validator, styles, result)

\* scanCode() after its await: the value returned or the error thrown
ScanOutcome(call) ==
  IF call.st = "rejected" THEN "StopCommand"
  ELSE IF ~call.res.codeResult \/ call.res.code = "" THEN "InternalError"
  ELSE "ok"

Unused == [st |-> "unused", res |-> NoResult]
Active(c) == {id \in CallIds : c[id].st # "unused"}

\* ---- actions ----

\* start() up to "await Quagga.init(...)"
Start ==
  /\ ~FrameSettled
  /\ IF StartReturnsEarly(isStarted)
       THEN /\ lastOp' = Op("start", "noop", NoCall, "")
            /\ UNCHANGED <<isStarted, isAutoCssApplied, starting, window, session,
                           everFailed, sheetsEver>>
       ELSE \E query \in QueryOutcomes, sheetOk \in BOOLEAN :
              LET css == AutoCssStep(autoCss, isAutoCssApplied, domTarget, query, sheetOk)
                  sh == IF css.appended THEN 1 ELSE 0
              IN
              /\ starting < MaxInFlight
              /\ starting + qCallbacks < MaxCallbacks
              /\ window.inits < MaxWindow
              /\ window.sheets < MaxWindow
              /\ css.appended => sheetsEver < MaxWindow
              /\ sheetsEver' = sheetsEver + sh
              /\ isAutoCssApplied' = css.applied
              /\ IF css.err # ""
                   THEN /\ isStarted' = StartCatch(TRUE)
                        /\ starting' = starting
                        /\ window' = [window EXCEPT !.sheets = @ + sh]
                        /\ session' = IF isStarted' THEN [session EXCEPT !.sheets = @ + sh]
                                      ELSE NoCount
                        /\ everFailed' = TRUE
                        /\ lastOp' = Op("start", css.err, NoCall, "")
                   ELSE /\ isStarted' = TRUE
                        /\ starting' = starting + 1
                        /\ window' = [inits |-> window.inits + 1, sheets |-> window.sheets + sh]
                        /\ session' = [inits |-> session.inits + 1, sheets |-> session.sheets + sh]
                        /\ everFailed' = everFailed
                        /\ lastOp' = Op("start", "init", NoCall, "")
  /\ UNCHANGED <<bvars, fvars, vvars, pvars, config, scanDeferred, calls, timers, overlay, stopping,
                 qStreaming, qDetecting, qCallbacks, staleTimers, overlayLatest>>

\* Quagga.init resolves; start() registers the frame callback and resolves.
\* What the engine makes of a Quagga.start() issued before init completed is
\* not defined: detection stays as it was or is reset.
InitOk ==
  /\ starting > 0
  /\ ~ContinuationQueued
  /\ starting' = starting - 1
  /\ qStreaming' = TRUE
  /\ qDetecting' \in {qDetecting, FALSE}
  /\ qCallbacks' = qCallbacks + 1
  /\ lastOp' = Op("startDone", "resolved", NoCall, "")
  /\ UNCHANGED <<bvars, fvars, vvars, pvars, config, isStarted, isAutoCssApplied, scanDeferred, calls, timers,
                 overlay, stopping, window, session, everFailed, sheetsEver,
                 staleTimers, overlayLatest>>

\* Quagga.init rejects; start() rolls the started flag back and rejects.
InitFail ==
  /\ starting > 0
  /\ ~ContinuationQueued
  /\ starting' = starting - 1
  /\ isStarted' = StartCatch(isStarted)
  /\ session' = IF isStarted' THEN session ELSE NoCount
  /\ lastOp' = Op("startDone", "InitError", NoCall, "")
  /\ UNCHANGED <<bvars, fvars, vvars, pvars, config, isAutoCssApplied, scanDeferred, calls, timers, overlay,
                 stopping, qStreaming, qDetecting, qCallbacks, window, sheetsEver,
                 staleTimers, overlayLatest>>
  /\ everFailed' = TRUE

\* stop() up to "await Quagga.stop()"
Stop ==
  /\ ~FrameSettled
  /\ window' = NoCount
  /\ IF StopReturnsEarly(isStarted)
       THEN /\ lastOp' = Op("stop", "noop", NoCall, "")
            /\ UNCHANGED <<calls, stopping, qStreaming, qDetecting, qCallbacks, session>>
       ELSE /\ stopping < MaxInFlight
            /\ qCallbacks' = 0
            /\ calls' = Settle(calls, scanDeferred, "rejected", NoResult)
            /\ qStreaming' = FALSE
            /\ qDetecting' = FALSE
            /\ stopping' = stopping + 1
            /\ session' = NoCount
            /\ lastOp' = Op("stop", "stopping", scanDeferred, "")
  /\ UNCHANGED <<bvars, fvars, vvars, pvars, config, isStarted, isAutoCssApplied, scanDeferred, timers, overlay,
                 starting, everFailed, sheetsEver, staleTimers, overlayLatest>>

\* Quagga.stop resolves; stop() clears the started flag and resolves.
StopDone ==
  /\ stopping > 0
  /\ ~ContinuationQueued
  /\ stopping' = stopping - 1
  /\ isStarted' = FALSE
  /\ session' = NoCount
  /\ lastOp' = Op("stopDone", "resolved", NoCall, "")
  /\ UNCHANGED <<bvars, fvars, vvars, pvars, config, isAutoCssApplied, scanDeferred, calls, timers, overlay,
                 starting, qStreaming, qDetecting, qCallbacks, window, everFailed,
                 sheetsEver, staleTimers, overlayLatest>>

\* scanCode() up to the await of its deferred promise
ScanCode ==
  /\ ~FrameSettled
  /\ LET g == ScanCodeGuard(isStarted, scanDeferred) IN
     IF g # "Accept"
       THEN /\ lastOp' = Op("scanCode", g, NoCall, "")
            /\ UNCHANGED <<scanDeferred, calls, qDetecting, staleTimers, overlayLatest>>
       ELSE /\ CallIds \ Active(calls) # {}
            /\ timers + Cardinality(Active(calls)) < MaxTimers
            /\ LET id == CHOOSE i \in CallIds \ Active(calls) :
                           \A j \in CallIds \ Active(calls) : i <= j
               IN /\ qDetecting' = TRUE
                  /\ calls' = [calls EXCEPT ![id] = [st |-> "pending", res |-> NoResult]]
                  /\ scanDeferred' = id
                  /\ staleTimers' = timers
                  /\ overlayLatest' = FALSE
                  /\ lastOp' = Op("scanCode", "Accept", id, "")
  /\ UNCHANGED <<bvars, fvars, vvars, pvars, config, isStarted, isAutoCssApplied, timers, overlay, starting,
                 stopping, qStreaming, qCallbacks, window, session, everFailed,
                 sheetsEver>>

\* scanCode() after its deferred promise settled: return or throw, then finally
ScanContinue ==
  \E id \in CallIds :
    /\ calls[id].st \in {"resolved", "rejected"}
    /\ scanDeferred' = ScanFinally(scanDeferred)
    /\ timers' = timers + 1
    /\ calls' = [calls EXCEPT ![id] = Unused]
    /\ lastOp' = Op("scanDone", ScanOutcome(calls[id]), id,
                    IF ScanOutcome(calls[id]) = "ok" THEN calls[id].res.code ELSE "")
    /\ UNCHANGED <<bvars, fvars, vvars, pvars, config, isStarted, isAutoCssApplied, overlay, starting, stopping,
                   qStreaming, qDetecting, qCallbacks, window, session, everFailed,
                   sheetsEver, staleTimers, overlayLatest>>

\* the 200ms timer set by scanCode()'s finally block fires; timers have the
\* same delay, so the oldest fires first
TimerFire ==
  /\ timers > 0
  /\ ~ContinuationQueued
  /\ timers' = timers - 1
  /\ staleTimers' = IF staleTimers > 0 THEN staleTimers - 1 ELSE 0
  /\ overlay' = IF scanDeferred = NoCall THEN {} ELSE overlay
  /\ overlayLatest' = IF scanDeferred = NoCall THEN FALSE ELSE overlayLatest
  /\ lastOp' = Op("timer", IF scanDeferred = NoCall THEN "cleared" ELSE "skipped",
                  NoCall, "")
  /\ UNCHANGED <<bvars, fvars, vvars, pvars, config, isStarted, isAutoCssApplied, scanDeferred, calls, starting,
                 stopping, qStreaming, qDetecting, qCallbacks, window, session,
                 everFailed, sheetsEver>>

\* the engine processes a video frame and publishes it
Frame ==
  /\ qStreaming
  /\ qDetecting
  /\ qCallbacks > 0
  /\ ~ContinuationQueued
  /\ \E result \in FrameResults :
       LET s0 == [calls |-> calls, overlay |-> overlay, detecting |-> qDetecting,
                  vcalls |-> 0, out |-> ""]
           s1 == Publish(qCallbacks, s0, scanDeferred, codeValidator, drawStyles, result)
       IN /\ calls' = s1.calls
          /\ overlay' = s1.overlay
          /\ qDetecting' = s1.detecting
          /\ overlayLatest' = IF s1.out = "ignored" THEN overlayLatest
                               ELSE s1.overlay # {}
          /\ lastOp' = FrameOp(s1.out, scanDeferred, result, s1.vcalls)
  /\ UNCHANGED <<bvars, fvars, vvars, pvars, config, isStarted, isAutoCssApplied, scanDeferred, timers, starting,
                 stopping, qStreaming, qCallbacks, window, session, everFailed,
                 sheetsEver, staleTimers>>

Next ==
  \/ Start
  \/ InitOk
  \/ InitFail
  \/ Stop
  \/ StopDone
  \/ ScanCode
  \/ ScanContinue
  \/ TimerFire
  \/ Frame

Spec == Init /\ [][Next]_vars

\* ---- the configuration builder ----

\* addReader: this._readerTypes.push(readerType)
PushReader(readerTypes, readerType) == Append(readerTypes, readerType)

\* withDrawLocated / withDrawDetected / withDrawScanline: the style is
\* assigned only if (enabled); otherwise the field keeps its value
WithDrawStyle(old, enabled, style) == IF enabled THEN style ELSE old

\* build(): default to CODE_128 if none provided (pushed onto the builder's own array)
BuildReadersNoDefault(readerTypes) == readerTypes
BuildReaders(readerTypes) ==
  IF Len(readerTypes) = 0 THEN PushReader(readerTypes, CODE_128) ELSE readerTypes

\* get readerTypes(): returns the builder's array itself, not a copy
ReaderTypesGetter(b) == [ref |-> "readerTypes"]

\* new BarcodeScanner(builder): readers holds what the getter returned, the
\* other options are copied by value; atBuild is history (the list at build())
NewBarcodeScanner(b) ==
  [target |-> b.domTarget,
   readers |-> ReaderTypesGetter(b),
   atBuild |-> b.readerTypes,
   autoCss |-> b.autoCss,
   resultImages |-> b.resultImages,
   resultImagesType |-> b.resultImagesType,
   resultImagesQuality |-> b.resultImagesQuality,
   codeValidator |-> b.codeValidator,
   draw |-> b.draw]

\* quaggaConfig.decoder.readers of a built scanner, read through its reference
Readers(scanner) == builder[scanner.readers.ref]

BuilderCall(op) == [blog EXCEPT !.op = op, !.n = @ + 1]

AddReader ==
  /\ blog.n < MaxBuilderCalls
  /\ \E readerType \in ReaderTypes :
       /\ builder' = [builder EXCEPT !.readerTypes = PushReader(@, readerType)]
       /\ blog' = [BuilderCall("addReader") EXCEPT !.added = Append(@, readerType)]
  /\ UNCHANGED <<built, svars, fvars, vvars, pvars>>

WithAutoCss ==
  /\ blog.n < MaxBuilderCalls
  /\ \E enabled \in BOOLEAN :
       /\ builder' = [builder EXCEPT !.autoCss = enabled]
       /\ blog' = [BuilderCall("withAutoCss") EXCEPT
                     !.autoCss = [called |-> TRUE, enabled |-> enabled]]
  /\ UNCHANGED <<built, svars, fvars, vvars, pvars>>

WithResultImages ==
  /\ blog.n < MaxBuilderCalls
  /\ \E enabled \in BOOLEAN, images \in ImageArgs :
       /\ builder' = [builder EXCEPT !.resultImages = enabled,
                                      !.resultImagesType = images.type,
                                      !.resultImagesQuality = images.quality]
       /\ blog' = [BuilderCall("withResultImages") EXCEPT
                     !.resultImages = [called |-> TRUE, enabled |-> enabled,
                                       type |-> images.type, quality |-> images.quality]]
  /\ UNCHANGED <<built, svars, fvars, vvars, pvars>>

WithCodeValidator ==
  /\ blog.n < MaxBuilderCalls
  /\ \E callback \in ValidatorArgs :
       /\ builder' = [builder EXCEPT !.codeValidator = callback]
       /\ blog' = [BuilderCall("withCodeValidator") EXCEPT !.codeValidator = callback]
  /\ UNCHANGED <<built, svars, fvars, vvars, pvars>>

WithDraw(item, op) ==
  /\ blog.n < MaxBuilderCalls
  /\ \E enabled \in BOOLEAN, style \in StyleArgs :
       /\ builder' = [builder EXCEPT !.draw[item] = WithDrawStyle(@, enabled, style)]
       /\ blog' = [BuilderCall(op) EXCEPT
                     !.draw[item] = [called |-> TRUE, enabled |-> enabled, style |-> style]]
  /\ UNCHANGED <<built, svars, fvars, vvars, pvars>>

WithDrawLocated == WithDraw("located", "withDrawLocated")
WithDrawDetected == WithDraw("detected", "withDrawDetected")
WithDrawScanline == WithDraw("scanline", "withDrawScanline")

Build ==
  /\ blog.n < MaxBuilderCalls
  /\ LET b == [builder EXCEPT !.readerTypes = BuildReaders(@)]
     IN /\ builder' = b
        /\ built' = Append(built, NewBarcodeScanner(b))
  /\ blog' = BuilderCall("build")
  /\ UNCHANGED <<svars, fvars, vvars, pvars>>

InitBuilder ==
  /\ InitBuilderVars
  /\ InitPollVars
  /\ InitFrameVars
  /\ InitViewportVars
  /\ InitScannerVars
  /\ ~autoCss /\ codeValidator = "none" /\ drawStyles = {} /\ domTarget = "#viewport"

NextBuilder ==
  \/ AddReader
  \/ WithAutoCss
  \/ WithResultImages
  \/ WithCodeValidator
  \/ WithDrawLocated
  \/ WithDrawDetected
  \/ WithDrawScanline
  \/ Build

SpecBuilder == InitBuilder /\ [][NextBuilder]_vars

\* ---- one invocation of the frame callback ----

\* what the engine can hand to the callback: no result (nothing located), a
\* result without decode, or a decode whose box is one of the located boxes
FrameInputs ==
  {[deferred |-> d, validator |-> v, styles |-> st, overlay |-> o,
    result |-> r, boxes |-> bs, box |-> b] :
      d \in {NoCall, 1}, v \in Validators, st \in DrawConfigs,
      o \in {{}, {"detected"}}, r \in FrameResults,
      bs \in SUBSET Boxes, b \in Boxes \cup {NoBox}}

EngineFrame(i) ==
  IF i.result = NoResult THEN i.boxes = {} /\ i.box = NoBox
  ELSE IF ~i.result.codeResult THEN i.boxes # {} /\ i.box = NoBox
  ELSE i.box \in i.boxes

\* drawLocated(): every box of result.boxes other than result.box is outlined
DrawLocated(styles, boxes, box) ==
  IF "located" \in styles THEN {b \in boxes : b # box} ELSE {}

\* onQuaggaProcessed(): drawLocated runs after the early return and the clear
LocatedOutlines(i) ==
  IF FrameIgnored(i.deferred, i.result) THEN {}
  ELSE DrawLocated(i.styles, i.boxes, i.box)

\* the request's deferred promise is pending while the handle is set
FrameCalls(i) ==
  [id \in CallIds |-> IF id = i.deferred THEN [st |-> "pending", res |-> NoResult]
                       ELSE Unused]

HandleFrame ==
  /\ ~fout.ran
  /\ LET s0 == [calls |-> FrameCalls(fin), overlay |-> fin.overlay, detecting |-> TRUE,
                vcalls |-> 0, out |-> ""]
         s1 == OnQuaggaProcessed(s0, fin.deferred, fin.validator, fin.styles, fin.result)
     IN fout' = [ran |-> TRUE, calls |-> s1.calls, overlay |-> s1.overlay,
                 detecting |-> s1.detecting, vcalls |-> s1.vcalls, out |-> s1.out,
                 located |-> LocatedOutlines(fin)]
  /\ UNCHANGED <<fin, bvars, svars, vvars, pvars>>

InitScannerIdle ==
  /\ InitScannerVars
  /\ ~autoCss /\ codeValidator = "none" /\ drawStyles = {} /\ domTarget = "#viewport"

InitFrame ==
  /\ InitBuilderVars
  /\ InitPollVars
  /\ InitViewportVars
  /\ InitScannerIdle
  /\ fin \in {i \in FrameInputs : EngineFrame(i)}
  /\ fout = NotRun

NextFrame == HandleFrame

SpecFrame == InitFrame /\ [][NextFrame]_vars

\* ---- the scanner that returns a ScanResult (viewport, hide/show, images) ----
\* Its start(), stop(), scanCode() and frame callback share their code with
\* the string-returning scanner except for the viewport lookup and the result.

VOp(op, out) == [op |-> op, out |-> out, code |-> ""]
VContinuationQueued == \E id \in CallIds : vreq[id].st \in {"resolved", "rejected"}
VFrameSettled == \E id \in CallIds : vreq[id].st = "resolved"
\* the scanner is configured without validator and with the detected style
VStyles == {"detected"}
\* frames: no result, a decode at the threshold, a decode below it
VFrameResults ==
  {NoResult} \cup {[kind |-> "result", codeResult |-> TRUE, code |-> "A", error |-> e] :
                     e \in {5, Threshold}}

\* attachViewport(): what happens inside its try block: querySelector throws
\* on a selector it cannot parse, the code throws when no element matches
AttachLookup(target, present) ==
  IF target = "#" THEN "SyntaxError"
  ELSE IF ~present THEN "CannotFind"
  ELSE ""

\* attachViewport(): the error it throws, "" when the element was attached.
\* The 'Cannot find element' error is thrown inside the try block and
\* replaced by the 'Invalid selector' error of its catch.
AttachViewport(target, present) ==
  IF target = "" THEN "UndefinedTarget"
  ELSE IF AttachLookup(target, present) # "" THEN "InvalidSelector"
  ELSE ""

\* a constructor that lets the error of attachViewport() escape
ConstructorCatchRethrows(err) == err

\* constructor: "try { this.attachViewport(); } catch {}"
ConstructorCatch(err) == ""

\* hide() without the check for an attached element
HideDisplayAlways(attached, display) == "none"

\* hide(): "if (this.ViewportElement) this.ViewportElement.style.display = 'none'"
HideDisplay(attached, display) == IF attached THEN "none" ELSE display

\* show(): "if (this.ViewportElement) this.ViewportElement.style.display = 'block'"
ShowDisplay(attached, display) == IF attached THEN "block" ELSE display

\* the display the page gives the viewport div: its inline style if set,
\* else the "display: flex" rule of the auto CSS sheet, else a div's default
EffectiveDisplay(applied, display) ==
  IF display # "" THEN display
  ELSE IF applied THEN "flex"
  ELSE "block"

\* start(): the auto CSS block of the ScanResult scanner
VAutoCssStep(auto, applied, sheetOk) ==
  IF ~(auto /\ ~applied) THEN [err |-> "", appended |-> FALSE, applied |-> applied]
  ELSE IF ~sheetOk THEN [err |-> "NoStylesheet", appended |-> TRUE, applied |-> applied]
  ELSE [err |-> "", appended |-> TRUE, applied |-> TRUE]

\* getCanvasBlobPromise(): an exception of canvas.toBlob() inside the promise
\* executor rejects the promise; otherwise it waits for the blob callback
GetCanvasBlobPromise(throws) == IF throws THEN "rejected" ELSE "pending"

\* the blob callback: "if (blob) resolve(blob) else reject()"
CaptureResult(blob) == IF blob THEN "blob" ELSE "rejected"

\* a ScanResult that always carries captures
ResultCaptureAlways(enabled, throws) == GetCanvasBlobPromise(throws)

\* onQuaggaProcessed(): "this.resultImages ? this.getCanvasBlobPromise(...) : undefined"
ResultCapture(enabled, throws) ==
  IF enabled THEN GetCanvasBlobPromise(throws) ELSE "undefined"

\* new BarcodeScanner(builder), with the document as it is at that moment
VConstruct ==
  /\ ~vp.built
  /\ \E target \in ViewportTargets, auto \in BOOLEAN, images \in BOOLEAN,
        present \in BOOLEAN :
       LET err == AttachViewport(target, present)
           thrown == ConstructorCatch(err)
       IN /\ vdom' = [vdom EXCEPT !.present = present]
          /\ vp' = [vp EXCEPT !.built = (thrown = ""), !.target = target,
                              !.autoCss = auto, !.resultImages = images,
                              !.ViewportElement = (err = "")]
          /\ vlast' = VOp("build", thrown)
  /\ UNCHANGED <<veng, vreq, vcap, bvars, svars, fvars, pvars>>

\* the page inserts the viewport div after the scanner was built
DomInsert ==
  /\ vp.built
  /\ ~vdom.present
  /\ ~VFrameSettled
  /\ vdom' = [vdom EXCEPT !.present = TRUE]
  /\ vlast' = VOp("dom", "inserted")
  /\ UNCHANGED <<vp, veng, vreq, vcap, bvars, svars, fvars, pvars>>

Hide ==
  /\ vp.built
  /\ ~VFrameSettled
  /\ vdom' = [vdom EXCEPT !.display = HideDisplay(vp.ViewportElement, @)]
  /\ vlast' = VOp("hide", EffectiveDisplay(vp.isAutoCssApplied, vdom.display))
  /\ UNCHANGED <<vp, veng, vreq, vcap, bvars, svars, fvars, pvars>>

Show ==
  /\ vp.built
  /\ ~VFrameSettled
  /\ vdom' = [vdom EXCEPT !.display = ShowDisplay(vp.ViewportElement, @)]
  /\ vlast' = VOp("show", "")
  /\ UNCHANGED <<vp, veng, vreq, vcap, bvars, svars, fvars, pvars>>

\* start() up to "await Quagga.init(...)"
VStart ==
  /\ vp.built
  /\ ~VFrameSettled
  /\ IF StartReturnsEarly(vp.isStarted)
       THEN /\ vlast' = VOp("start", "noop")
            /\ UNCHANGED <<vp, vdom, veng>>
       ELSE \E sheetOk \in BOOLEAN :
              LET aerr == IF vp.ViewportElement THEN ""
                          ELSE AttachViewport(vp.target, vdom.present)
                  css == VAutoCssStep(vp.autoCss, vp.isAutoCssApplied, sheetOk)
                  err == IF aerr # "" THEN aerr ELSE css.err
                  appended == aerr = "" /\ css.appended
              IN /\ veng.starting < MaxInFlight
                 /\ veng.starting + veng.callbacks < MaxCallbacks
                 /\ appended => vdom.sheets < MaxWindow
                 /\ vdom' = [vdom EXCEPT !.sheets = IF appended THEN @ + 1 ELSE @]
                 /\ vp' = [vp EXCEPT
                            !.ViewportElement = (aerr = ""),
                            !.isAutoCssApplied = IF aerr = "" THEN css.applied ELSE @,
                            !.isStarted = IF err # "" THEN StartCatch(TRUE) ELSE TRUE]
                 /\ veng' = IF err = "" THEN [veng EXCEPT !.starting = @ + 1] ELSE veng
                 /\ vlast' = VOp("start", IF err = "" THEN "init" ELSE err)
  /\ UNCHANGED <<vreq, vcap, bvars, svars, fvars, pvars>>

VInitOk ==
  /\ veng.starting > 0
  /\ ~VContinuationQueued
  /\ \E detecting \in {veng.detecting, FALSE} :
       veng' = [veng EXCEPT !.starting = @ - 1, !.streaming = TRUE,
                            !.detecting = detecting, !.callbacks = @ + 1]
  /\ vlast' = VOp("startDone", "resolved")
  /\ UNCHANGED <<vp, vdom, vreq, vcap, bvars, svars, fvars, pvars>>

VInitFail ==
  /\ veng.starting > 0
  /\ ~VContinuationQueued
  /\ veng' = [veng EXCEPT !.starting = @ - 1]
  /\ vp' = [vp EXCEPT !.isStarted = StartCatch(@)]
  /\ vlast' = VOp("startDone", "InitError")
  /\ UNCHANGED <<vdom, vreq, vcap, bvars, svars, fvars, pvars>>

\* stop() up to "await Quagga.stop()"
VStop ==
  /\ vp.built
  /\ ~VFrameSettled
  /\ IF StopReturnsEarly(vp.isStarted)
       THEN /\ vlast' = VOp("stop", "noop")
            /\ UNCHANGED <<veng, vreq>>
       ELSE /\ veng.stopping < MaxInFlight
            /\ veng' = [veng EXCEPT !.callbacks = 0, !.streaming = FALSE,
                                    !.detecting = FALSE, !.stopping = @ + 1]
            /\ vreq' = Settle(vreq, vp.scanDeferred, "rejected", NoResult)
            /\ vlast' = VOp("stop", "stopping")
  /\ UNCHANGED <<vp, vdom, vcap, bvars, svars, fvars, pvars>>

VStopDone ==
  /\ veng.stopping > 0
  /\ ~VContinuationQueued
  /\ veng' = [veng EXCEPT !.stopping = @ - 1]
  /\ vp' = [vp EXCEPT !.isStarted = FALSE]
  /\ vlast' = VOp("stopDone", "resolved")
  /\ UNCHANGED <<vdom, vreq, vcap, bvars, svars, fvars, pvars>>

\* scanCode() up to the await of its deferred promise
VScanCode ==
  /\ vp.built
  /\ ~VFrameSettled
  /\ LET g == ScanCodeGuard(vp.isStarted, vp.scanDeferred) IN
     IF g # "Accept"
       THEN /\ vlast' = VOp("scanCode", g)
            /\ UNCHANGED <<vp, veng, vreq>>
       ELSE /\ CallIds \ Active(vreq) # {}
            /\ veng.timers + Cardinality(Active(vreq)) < MaxTimers
            /\ LET id == CHOOSE i \in CallIds \ Active(vreq) :
                           \A j \in CallIds \ Active(vreq) : i <= j
               IN /\ veng' = [veng EXCEPT !.detecting = TRUE]
                  /\ vreq' = [vreq EXCEPT ![id] = [st |-> "pending", res |-> NoResult]]
                  /\ vp' = [vp EXCEPT !.scanDeferred = id]
                  /\ vlast' = VOp("scanCode", "Accept")
  /\ UNCHANGED <<vdom, vcap, bvars, svars, fvars, pvars>>

\* scanCode() after its deferred promise settled: return or throw, then finally
VScanContinue ==
  /\ \E id \in CallIds :
       /\ vreq[id].st \in {"resolved", "rejected"}
       /\ vp' = [vp EXCEPT !.scanDeferred = ScanFinally(@)]
       /\ veng' = [veng EXCEPT !.timers = @ + 1]
       /\ vreq' = [vreq EXCEPT ![id] = Unused]
       /\ vlast' = IF vreq[id].st = "rejected" THEN VOp("scanDone", "StopCommand")
                    ELSE [op |-> "scanDone", out |-> "ok", code |-> vreq[id].res.code]
  /\ UNCHANGED <<vdom, vcap, bvars, svars, fvars, pvars>>

VTimerFire ==
  /\ veng.timers > 0
  /\ ~VContinuationQueued
  /\ veng' = [veng EXCEPT !.timers = @ - 1,
                          !.overlay = IF vp.scanDeferred = NoCall THEN {} ELSE @]
  /\ vlast' = VOp("timer", IF vp.scanDeferred = NoCall THEN "cleared" ELSE "skipped")
  /\ UNCHANGED <<vp, vdom, vreq, vcap, bvars, svars, fvars, pvars>>

\* the engine processes a video frame; an accepted frame builds the ScanResult
VFrame ==
  /\ veng.streaming
  /\ veng.detecting
  /\ veng.callbacks > 0
  /\ ~VContinuationQueued
  /\ \E result \in VFrameResults, throwsImage \in BOOLEAN, throwsOverlay \in BOOLEAN :
       LET s0 == [calls |-> vreq, overlay |-> veng.overlay, detecting |-> veng.detecting,
                  vcalls |-> 0, out |-> ""]
           s1 == Publish(veng.callbacks, s0, vp.scanDeferred, "none", VStyles, result)
       IN /\ vreq' = s1.calls
          /\ veng' = [veng EXCEPT !.overlay = s1.overlay, !.detecting = s1.detecting]
          /\ vcap' = IF s1.calls # vreq
                       THEN [image |-> ResultCapture(vp.resultImages, throwsImage),
                             overlay |-> ResultCapture(vp.resultImages, throwsOverlay)]
                       ELSE vcap
          /\ vlast' = VOp("frame", s1.out)
  /\ UNCHANGED <<vp, vdom, bvars, svars, fvars, pvars>>

\* canvas.toBlob() calls back with the blob, or with null
BlobDone ==
  /\ ~VContinuationQueued
  /\ \E k \in {"image", "overlay"}, blob \in BOOLEAN :
       /\ vcap[k] = "pending"
       /\ vcap' = [vcap EXCEPT ![k] = CaptureResult(blob)]
       /\ vlast' = VOp("blob", k)
  /\ UNCHANGED <<vp, vdom, veng, vreq, bvars, svars, fvars, pvars>>

InitViewport ==
  /\ InitBuilderVars
  /\ InitPollVars
  /\ InitScannerIdle
  /\ InitFrameVars
  /\ InitViewportVars

NextViewport ==
  \/ VConstruct
  \/ DomInsert
  \/ Hide
  \/ Show
  \/ VStart
  \/ VInitOk
  \/ VInitFail
  \/ VStop
  \/ VStopDone
  \/ VScanCode
  \/ VScanContinue
  \/ VTimerFire
  \/ VFrame
  \/ BlobDone

SpecViewport == InitViewport /\ [][NextViewport]_vars

\* ---- the scanner whose scanCode() polls for the result ----

POp(op, out, w, code) == [op |-> op, out |-> out, w |-> w, code |-> code]

\* resume(): "if (this.isStarted && !this.isScanning) { Quagga.start(); ... }"
PollResume(s) ==
  IF s.isStarted /\ ~s.isScanning
    THEN [s EXCEPT !.isScanning = TRUE, !.detecting = TRUE]
    ELSE s

\* pause(): "if (this.isStarted && this.isScanning) { Quagga.pause(); ... }"
PollPause(s) ==
  IF s.isStarted /\ s.isScanning
    THEN [s EXCEPT !.isScanning = FALSE, !.detecting = FALSE]
    ELSE s

\* onQuaggaProcessed(result) of the polling scanner, on the record
\* s = [isStarted, isScanning, numWaiting, lastResult, detecting, overlay]
PollOnQuaggaProcessed(s, result) ==
  IF s.numWaiting = 0
    THEN [PollPause(s) EXCEPT !.overlay = FALSE, !.lastResult = NoResult]
  ELSE IF s.lastResult # NoResult THEN s
  ELSE IF result = NoResult THEN [s EXCEPT !.overlay = FALSE]
  ELSE IF Qualifies(result) THEN [s EXCEPT !.overlay = TRUE, !.lastResult = result]
  ELSE [s EXCEPT !.overlay = FALSE]

RECURSIVE PollPublish(_, _, _)
PollPublish(n, s, result) ==
  IF n = 0 THEN s ELSE PollPublish(n - 1, PollOnQuaggaProcessed(s, result), result)

\* scanCode(): "while (!this.lastResult && this.isStarted)"
PollKeepsWaiting(s) == s.lastResult = NoResult /\ s.isStarted

\* scanCode() after its loop, on the record s: the fields it leaves and the
\* value returned or error thrown
PollFinish(s) ==
  IF ~s.isStarted
    THEN [s |-> [s EXCEPT !.numWaiting = @ - 1], out |-> "StopCommand", code |-> ""]
  ELSE LET t == [s EXCEPT !.numWaiting = @ - 1, !.lastResult = NoResult]
       IN IF s.lastResult = NoResult \/ ~HasCode(s.lastResult)
            THEN [s |-> t, out |-> "InternalError", code |-> ""]
            ELSE [s |-> t, out |-> "ok", code |-> s.lastResult.code]

PollState ==
  [isStarted |-> pl.isStarted, isScanning |-> pl.isScanning,
   numWaiting |-> pl.numWaiting, lastResult |-> pl.lastResult,
   detecting |-> pq.detecting, overlay |-> pq.overlay]

\* writes the record s back to the scanner's fields and the engine
PollUpdate(s) ==
  /\ pl' = [pl EXCEPT !.isStarted = s.isStarted, !.isScanning = s.isScanning,
                      !.numWaiting = s.numWaiting, !.lastResult = s.lastResult]
  /\ pq' = [pq EXCEPT !.detecting = s.detecting, !.overlay = s.overlay]

\* start() up to "await Quagga.init(...)"; there is no try/catch, the started
\* flag is set only after the await
PStart ==
  /\ IF StartReturnsEarly(pl.isStarted)
       THEN /\ plast' = POp("start", "noop", NoWaiter, "")
            /\ UNCHANGED <<pl, pq>>
       ELSE \E query \in QueryOutcomes, sheetOk \in BOOLEAN :
              LET css == AutoCssStep(pl.autoCss, pl.isAutoCssApplied, "#viewport",
                                     query, sheetOk)
              IN /\ pq.starting < MaxInFlight
                 /\ pq.starting + pq.callbacks < MaxCallbacks
                 /\ pl' = [pl EXCEPT !.isAutoCssApplied = css.applied]
                 /\ pq' = IF css.err = "" THEN [pq EXCEPT !.starting = @ + 1] ELSE pq
                 /\ plast' = POp("start", IF css.err = "" THEN "init" ELSE css.err,
                                 NoWaiter, "")
  /\ UNCHANGED <<pw, bvars, svars, fvars, vvars>>

\* Quagga.init resolves: register the callback, set the flags
PInitOk ==
  /\ pq.starting > 0
  /\ \E detecting \in {pq.detecting, FALSE} :
       pq' = [pq EXCEPT !.starting = @ - 1, !.streaming = TRUE,
                        !.detecting = detecting, !.callbacks = @ + 1]
  /\ pl' = [pl EXCEPT !.isStarted = TRUE, !.isScanning = FALSE]
  /\ plast' = POp("startDone", "resolved", NoWaiter, "")
  /\ UNCHANGED <<pw, bvars, svars, fvars, vvars>>

\* Quagga.init rejects: start() rejects, no field was changed
PInitFail ==
  /\ pq.starting > 0
  /\ pq' = [pq EXCEPT !.starting = @ - 1]
  /\ plast' = POp("startDone", "InitError", NoWaiter, "")
  /\ UNCHANGED <<pl, pw, bvars, svars, fvars, vvars>>

\* stop() up to "await Quagga.stop()"
PStop ==
  /\ IF StopReturnsEarly(pl.isStarted)
       THEN /\ plast' = POp("stop", "noop", NoWaiter, "")
            /\ UNCHANGED <<pl, pw, pq>>
       ELSE /\ pq.stopping < MaxInFlight
            /\ pq' = [pq EXCEPT !.callbacks = 0, !.streaming = FALSE,
                                !.detecting = FALSE, !.stopping = @ + 1]
            /\ pl' = [pl EXCEPT !.isStarted = FALSE, !.isScanning = FALSE,
                                !.numWaiting = 0, !.lastResult = NoResult]
            /\ pw' = [w \in Waiters |->
                        IF pw[w].st = "waiting" THEN [pw[w] EXCEPT !.stopped = TRUE]
                        ELSE pw[w]]
            /\ plast' = POp("stop", "stopping", NoWaiter, "")
  /\ UNCHANGED <<bvars, svars, fvars, vvars>>

PStopDone ==
  /\ pq.stopping > 0
  /\ pq' = [pq EXCEPT !.stopping = @ - 1]
  /\ plast' = POp("stopDone", "resolved", NoWaiter, "")
  /\ UNCHANGED <<pl, pw, bvars, svars, fvars, vvars>>

\* scanCode() up to its first await, or to its end when the loop is not entered
PScanCode ==
  /\ IF ~pl.isStarted
       THEN /\ plast' = POp("scanCode", "NotStarted", NoWaiter, "")
            /\ UNCHANGED <<pl, pw, pq>>
       ELSE \E w \in Waiters :
              /\ pw[w].st = "idle"
              /\ LET s == PollResume([PollState EXCEPT !.numWaiting = @ + 1])
                 IN IF PollKeepsWaiting(s)
                      THEN /\ PollUpdate(s)
                           /\ pw' = [pw EXCEPT ![w] = [st |-> "waiting", stopped |-> FALSE]]
                           /\ plast' = POp("scanCode", "waiting", w, "")
                      ELSE LET f == PollFinish(s)
                           IN /\ PollUpdate(f.s)
                              /\ pw' = pw
                              /\ plast' = POp("scanCode", f.out, w, f.code)
  /\ UNCHANGED <<bvars, svars, fvars, vvars>>

\* the 100ms timer of a waiting scanCode() fires: test the loop condition again
PPoll ==
  /\ \E w \in Waiters :
       /\ pw[w].st = "waiting"
       /\ IF PollKeepsWaiting(PollState)
            THEN /\ plast' = POp("poll", "waiting", w, "")
                 /\ UNCHANGED <<pl, pw, pq>>
            ELSE LET f == PollFinish(PollState)
                 IN /\ PollUpdate(f.s)
                    /\ pw' = [pw EXCEPT ![w] = [st |-> "idle", stopped |-> FALSE]]
                    /\ plast' = POp("poll", f.out, w, f.code)
  /\ UNCHANGED <<bvars, svars, fvars, vvars>>

\* the engine processes a video frame and publishes it
PFrame ==
  /\ pq.streaming
  /\ pq.detecting
  /\ pq.callbacks > 0
  /\ \E result \in VFrameResults :
       /\ PollUpdate(PollPublish(pq.callbacks, PollState, result))
       /\ plast' = POp("frame", IF result = NoResult THEN "null" ELSE "result",
                       NoWaiter, "")
  /\ UNCHANGED <<pw, bvars, svars, fvars, vvars>>

InitPoll ==
  /\ InitBuilderVars
  /\ InitScannerIdle
  /\ InitFrameVars
  /\ InitViewportVars
  /\ InitPollVars

NextPoll ==
  \/ PStart
  \/ PInitOk
  \/ PInitFail
  \/ PStop
  \/ PStopDone
  \/ PScanCode
  \/ PPoll
  \/ PFrame

SpecPoll == InitPoll /\ [][NextPoll]_vars

\* ---- properties ----

StartErrors == {"UndefinedTarget", "InvalidSelector", "NoStylesheet", "InitError"}

\* the frame carries a decode with a non-empty code and an error below the threshold
QualifyingDecode(r) ==
  /\ r # NoResult
  /\ r.codeResult
  /\ r.code # ""
  /\ r.error < Threshold

\* no validator is configured, or the configured one returns true for the code
PassesValidator(r) == codeValidator = "none" \/ r.code = "A"

\* C1: while a scanCode() call is pending, a further scanCode() call is
\* rejected with 'Already scanning for code' and leaves the pending handle,
\* the pending call and the overlay-clear timers as they were.
C1_SecondCallRejectedAsAlreadyScanning ==
  [][(lastOp'.op = "scanCode" /\ Pending(calls) # {})
       => /\ lastOp'.out = "Already"
          /\ scanDeferred' = scanDeferred
          /\ calls' = calls
          /\ timers' = timers]_vars

\* C2: at most one accepted scanCode() call is unsettled at any time.
C2_AtMostOnePending == Cardinality(Pending(calls)) <= 1

C2_Witness ==
  /\ lastOp.op = "scanCode"
  /\ lastOp.out = "Already"
  /\ Cardinality(Pending(calls)) = 1

\* C3: a stop() call made while a scanCode() call is pending makes that call
\* fail with 'Scanner received stop command', and a scanCode() call made on
\* the running scanner (no start() or stop() in progress) with no request
\* outstanding is accepted.
C3_StopFailsPendingScan ==
  [][/\ (lastOp'.op = "stop" /\ Pending(calls) # {})
          => \A id \in Pending(calls) : calls'[id].st = "rejected"
     /\ (lastOp'.op = "scanDone" /\ calls[lastOp'.id].st = "rejected")
          => lastOp'.out = "StopCommand"
     /\ (/\ lastOp'.op = "scanCode"
         /\ isStarted /\ starting = 0 /\ stopping = 0 /\ Active(calls) = {})
          => lastOp'.out = "Accept"]_vars

\* C4: a frame with a qualifying decode that passes the validator, delivered
\* while a scan is pending, resolves exactly that one call with the frame's
\* decoded text and pauses detection; detection is resumed only by the next
\* accepted scanCode() call, and only a frame delivered while detection is
\* active resolves a call.
C4_QualifyingFrameResolvesAndPauses ==
  [][/\ (/\ lastOp'.op = "frame"
         /\ QualifyingDecode(lastOp'.res)
         /\ PassesValidator(lastOp'.res)
         /\ Pending(calls) # {})
          => /\ Cardinality(Pending(calls)) = 1
             /\ \A id \in Pending(calls) :
                  calls'[id] = [st |-> "resolved", res |-> lastOp'.res]
             /\ \A id \in CallIds \ Pending(calls) : calls'[id] = calls[id]
             /\ ~qDetecting'
     /\ (lastOp'.op = "scanDone" /\ calls[lastOp'.id].st = "resolved")
          => /\ lastOp'.out = "ok"
             /\ lastOp'.code = calls[lastOp'.id].res.code
     /\ (~qDetecting /\ qDetecting')
          => (lastOp'.op = "scanCode" /\ lastOp'.out = "Accept")
     /\ (lastOp'.op = "frame" /\ calls' # calls) => qDetecting]_vars

C4_Witness ==
  /\ lastOp.op = "frame"
  /\ QualifyingDecode(lastOp.res)
  /\ \E id \in CallIds : calls[id] = [st |-> "resolved", res |-> lastOp.res]
  /\ ~qDetecting

\* C5: a frame whose decode error is at or above the threshold resolves
\* nothing and does not pause detection, whatever its code and the validator.
C5_HighErrorFrameNeverResolves ==
  [][(/\ lastOp'.op = "frame"
      /\ lastOp'.res # NoResult
      /\ lastOp'.res.codeResult
      /\ lastOp'.res.error >= Threshold)
       => (calls' = calls /\ qDetecting')]_vars

C5_Witness ==
  /\ lastOp.op = "frame"
  /\ lastOp.res # NoResult
  /\ lastOp.res.codeResult
  /\ lastOp.res.code = "A"
  /\ lastOp.res.error = Threshold
  /\ Pending(calls) # {}
  /\ qDetecting

\* C6: a frame with a qualifying decode for which the configured validator
\* returns false leaves the pending call unsettled and detection active.
C6_ValidatorRejectionKeepsPending ==
  [][(/\ lastOp'.op = "frame"
      /\ QualifyingDecode(lastOp'.res)
      /\ ~PassesValidator(lastOp'.res)
      /\ Pending(calls) # {})
       => (calls' = calls /\ qDetecting')]_vars

C6_Witness ==
  /\ lastOp.op = "frame"
  /\ QualifyingDecode(lastOp.res)
  /\ codeValidator = "onlyA"
  /\ lastOp.res.code = "B"
  /\ Pending(calls) # {}
  /\ qDetecting

\* C7: scanCode() on a scanner that is not started is rejected with
\* 'Scanner not started' and creates no handle, resumes nothing and
\* schedules no timer.
C7_NotStartedRejectsWithoutEffect ==
  [][(lastOp'.op = "scanCode" /\ ~isStarted)
       => /\ lastOp'.out = "NotStarted"
          /\ UNCHANGED <<scanDeferred, calls, qDetecting, timers, overlay>>]_vars

C7_Witness ==
  /\ lastOp.op = "scanCode"
  /\ lastOp.out = "NotStarted"
  /\ ~isStarted
  /\ scanDeferred = NoCall

\* C8: a scanCode() call issued while a start() or a stop() call has not yet
\* completed fails with 'Scanner not started', creates no handle and issues
\* no resume to the engine.
C8_ScanCodeOnlyWhileRunning ==
  [][(lastOp'.op = "scanCode" /\ (starting > 0 \/ stopping > 0))
       => /\ lastOp'.out = "NotStarted"
          /\ UNCHANGED <<scanDeferred, calls, qDetecting>>]_vars

\* C9: a start() call that fails, before or after its await, rejects with the
\* failure and leaves the started flag cleared, and a start() call made while
\* the flag is cleared runs the start sequence again.
C9_FailedStartRollsBack ==
  [][/\ (lastOp'.op \in {"start", "startDone"} /\ lastOp'.out \in StartErrors)
          => ~isStarted'
     /\ (/\ lastOp'.op = "start"
         /\ ~isStarted /\ autoCss /\ ~isAutoCssApplied /\ domTarget = "")
          => lastOp'.out = "UndefinedTarget"
     /\ (lastOp'.op = "start" /\ ~isStarted) => lastOp'.out # "noop"]_vars

C9_Witness ==
  /\ everFailed
  /\ lastOp.op = "startDone"
  /\ lastOp.out = "resolved"
  /\ isStarted
  /\ starting = 0
  /\ stopping = 0

C11_ResolvedStartMeansStreaming ==
  [][(\/ (lastOp'.op = "start" /\ lastOp'.out = "noop")
      \/ (lastOp'.op = "startDone" /\ lastOp'.out = "resolved"))
       => (qStreaming' /\ qCallbacks' > 0)]_vars

\* C12: stop() on a scanner that is not started makes no engine call,
\* rejects nothing and leaves the started flag and the handle as they were.
C12_StopNotStartedIsNoop ==
  [][(lastOp'.op = "stop" /\ ~isStarted)
       => /\ lastOp'.out = "noop"
          /\ UNCHANGED <<isStarted, scanDeferred, calls, stopping, qStreaming,
                         qDetecting, qCallbacks>>]_vars

C12_Witness ==
  /\ lastOp.op = "stop"
  /\ lastOp.out = "noop"
  /\ ~isStarted
  /\ stopping = 0

\* C13: when no start() has run the start sequence since the last stop()
\* call and every start() and stop() call has completed, the scanner is not
\* started, no frame callback is registered and the video is halted.
C13_StopLastLeavesStopped ==
  (window.inits = 0 /\ starting = 0 /\ stopping = 0)
    => (~isStarted /\ qCallbacks = 0 /\ ~qStreaming)

\* C15: when an accepted scanCode() call returns or throws, the handle is
\* cleared, and a scanCode() call made while the scanner is started and no
\* call is outstanding is accepted.
C15_SettlementClearsHandle ==
  [][/\ (lastOp'.op = "scanDone") => (scanDeferred' = NoCall)
     /\ (lastOp'.op = "scanCode" /\ isStarted /\ Active(calls) = {})
          => (lastOp'.out = "Accept" /\ scanDeferred' # NoCall)]_vars

C15_Witness ==
  /\ lastOp.op = "scanCode"
  /\ lastOp.out = "Accept"
  /\ timers > 0
  /\ scanDeferred # NoCall

\* C17: no accepted scanCode() call is left pending by a stop() call that
\* follows it.
C17_StopLeavesNothingPending ==
  [][(lastOp'.op = "stop") => (Pending(calls') = {})]_vars

\* C14: with auto-layout enabled, a style element is appended to the
\* document at most once over the scanner's lifetime, and exactly once has
\* been appended when a start() call has succeeded.
C14_StylesheetInsertedOnce ==
  autoCss =>
    /\ sheetsEver <= 1
    /\ (lastOp.op = "startDone" /\ lastOp.out = "resolved") => sheetsEver = 1

\* C16: a timer scheduled before the latest accepted scanCode() call does not
\* clear what a frame of that newer scan has drawn on the overlay.
C16_OlderTimerSparesNewerOverlay ==
  [][(lastOp'.op = "timer" /\ staleTimers > 0 /\ overlayLatest)
       => overlay' = overlay]_vars

\* C18: a build() on a fresh builder yields a scanner whose symbology list is
\* the addReader arguments in call order, duplicates kept, and exactly
\* <<CODE_128>> when addReader was never called.
C18_BuildListsAddedReaders ==
  (blog.op = "build" /\ Len(built) = 1)
    => Readers(built[1]) = (IF blog.added = <<>> THEN <<CODE_128>> ELSE blog.added)

C18_Witness ==
  /\ blog.op = "build" /\ Len(built) = 1
  /\ Len(blog.added) >= 2 /\ blog.added[1] = blog.added[2]
  /\ Readers(built[1]) = blog.added

\* C19: the configuration of a built scanner is frozen at build(): its
\* symbology list stays the list it had when build() returned.
C19_BuiltScannerIsFrozen ==
  \A i \in DOMAIN built : Readers(built[i]) = built[i].atBuild

\* C20: at build() every single-valued option equals what its last call
\* asked for; a draw style whose last call passed enabled = FALSE is unset.
C20_LastCallWins ==
  (blog.op = "build") =>
    LET scanner == built[Len(built)]
    IN /\ blog.autoCss.called => scanner.autoCss = blog.autoCss.enabled
       /\ blog.resultImages.called =>
            /\ scanner.resultImages = blog.resultImages.enabled
            /\ scanner.resultImagesType = blog.resultImages.type
            /\ scanner.resultImagesQuality = blog.resultImages.quality
       /\ blog.codeValidator # "none" => scanner.codeValidator = blog.codeValidator
       /\ \A item \in DrawItems :
            blog.draw[item].called =>
              scanner.draw[item] = (IF blog.draw[item].enabled
                                    THEN blog.draw[item].style ELSE NoStyle)

\* C21: hide() and show() change nothing but the viewport element's display
\* style, in every lifecycle state, and change nothing at all while no
\* viewport element is attached.
C21_HideShowOnlyTouchDisplay ==
  [][(vlast'.op \in {"hide", "show"})
       => /\ UNCHANGED <<vp, veng, vreq, vcap>>
          /\ vdom'.present = vdom.present
          /\ vdom'.sheets = vdom.sheets
          /\ ~vp.ViewportElement => vdom' = vdom
          /\ vp.ViewportElement
               => vdom'.display = (IF vlast'.op = "hide" THEN "none" ELSE "block")]_vars

C21_Witness ==
  /\ vlast.op = "hide" /\ vdom.display = "none" /\ vp.ViewportElement
  /\ vp.isStarted /\ vp.scanDeferred # NoCall /\ veng.detecting /\ veng.callbacks > 0

\* C22: the ScanResult of an accepted frame carries an image and an overlay
\* capture exactly when result images are configured; a capture that yields
\* no blob ends rejected, and scanCode() resolves with the decoded text
\* whatever happens to the captures.
C22_CapturesFollowConfig ==
  [][/\ (vlast'.op = "frame" /\ vlast'.out = "accepted")
          => /\ \E id \in CallIds : vreq[id].st = "pending" /\ vreq'[id].st = "resolved"
             /\ IF vp.resultImages
                  THEN vcap'.image # "undefined" /\ vcap'.overlay # "undefined"
                  ELSE vcap'.image = "undefined" /\ vcap'.overlay = "undefined"
     /\ (vlast'.op = "blob")
          => /\ UNCHANGED <<vp, veng, vreq>>
             /\ \A k \in {"image", "overlay"} :
                  vcap'[k] # vcap[k] => (vcap[k] = "pending" /\ vcap'[k] \in {"blob", "rejected"})
     /\ \A id \in CallIds :
          (vlast'.op = "scanDone" /\ vreq[id].st = "resolved")
            => (vlast'.out = "ok" /\ vlast'.code = vreq[id].res.code /\ vlast'.code # "")]_vars

C22_Witness ==
  /\ vlast.op = "scanDone" /\ vlast.out = "ok" /\ vlast.code = "A"
  /\ vp.resultImages /\ vcap.image = "rejected" /\ vcap.overlay \in {"pending", "blob"}

\* C23: constructing the scanner never fails, also when the viewport target
\* cannot be resolved; a target that still cannot be resolved makes start()
\* fail with the lookup's error and leaves the scanner not started.
C23_BuildNeverFails ==
  [][/\ (vlast'.op = "build") => (vlast'.out = "" /\ vp'.built)
     /\ (/\ vlast'.op = "start"
         /\ ~vp.isStarted
         /\ ~vp.ViewportElement
         /\ AttachViewport(vp.target, vdom.present) # "")
          => /\ vlast'.out = AttachViewport(vp.target, vdom.present)
             /\ ~vp'.isStarted
             /\ veng' = veng]_vars

C23_Witness ==
  /\ vlast.op = "start" /\ vlast.out \in {"InvalidSelector", "UndefinedTarget"}
  /\ vp.built /\ ~vp.ViewportElement /\ ~vp.isStarted

\* C24: whenever the started flag is false, the pending-request handle is
\* empty.
C24_PendingOnlyWhileStarted == ~isStarted => scanDeferred = NoCall

\* C25: when no start() or stop() call is in progress and no scan request is
\* pending, the engine is not detecting.
C25_NoDetectionWithoutRequest ==
  (starting = 0 /\ stopping = 0 /\ Pending(calls) = {}) => ~qDetecting

C25_Witness ==
  /\ lastOp.op = "scanDone" /\ lastOp.out = "ok"
  /\ isStarted /\ starting = 0 /\ stopping = 0
  /\ Pending(calls) = {} /\ qStreaming /\ ~qDetecting

\* C26: at most one frame callback of the scanner is registered with the
\* engine at any time.
C26_AtMostOneCallback == qCallbacks <= 1

\* C27: a frame callback run while no request handle is set, or with a frame
\* that carries no result, changes nothing: the overlay is neither cleared
\* nor drawn on, the validator is not invoked, nothing is settled and
\* detection is not paused.
C27_IgnoredFrameIsNoop ==
  (fout.ran /\ (fin.deferred = NoCall \/ fin.result = NoResult))
    => /\ fout.out = "ignored"
       /\ fout.overlay = fin.overlay
       /\ fout.located = {}
       /\ fout.vcalls = 0
       /\ fout.calls = FrameCalls(fin)
       /\ fout.detecting

C27_Witness ==
  /\ fout.ran /\ fin.deferred = NoCall /\ fin.validator = "onlyA"
  /\ fin.result # NoResult /\ fin.result.codeResult /\ fin.result.code = "A"
  /\ fin.result.error < Threshold /\ fin.overlay # {} /\ fout.overlay = fin.overlay

\* C29: with a located-candidates style configured, a frame handled with a
\* pending request outlines every candidate box except the box of the decode
\* accepted on that frame; the box of a decode that is not accepted is
\* outlined like the others.
C29_LocatedSkipsOnlyAccepted ==
  (fout.ran /\ "located" \in fin.styles /\ ~(fin.deferred = NoCall \/ fin.result = NoResult))
    => fout.located = {b \in fin.boxes : ~(fout.out = "accepted" /\ b = fin.box)}

\* C28: a processed frame invokes the validator at most once, and only when
\* a request is pending and the frame's decode is below the threshold.
C28_ValidatorOncePerFrame ==
  [][(lastOp'.op = "frame")
       => /\ lastOp'.vcalls <= 1
          /\ (lastOp'.vcalls > 0)
               => (Pending(calls) # {} /\ QualifyingDecode(lastOp'.res))]_vars

\* C30: scanCode() never fails with 'Internal scanner error': a request
\* resolved by the frame callback carries a non-empty code, and an accepted
\* call ends with the code or with the stop() rejection.
C30_NoInternalError ==
  /\ \A id \in CallIds :
       calls[id].st = "resolved" => (calls[id].res.codeResult /\ calls[id].res.code # "")
  /\ (lastOp.op = "scanDone") => lastOp.out \in {"ok", "StopCommand"}

C30_Witness ==
  /\ lastOp.op = "scanDone" /\ lastOp.out = "ok" /\ lastOp.code \in {"A", "B"}
  /\ scanDeferred = NoCall

\* C31: when the viewport selector parses but matches no element, start()
\* fails with the 'Cannot find element at selector' error; 'Invalid
\* selector' is reported only when the lookup itself throws.
C31_MissingElementReportedAsNotFound ==
  [][(/\ vlast'.op = "start"
      /\ ~vp.isStarted
      /\ ~vp.ViewportElement
      /\ vp.target = "#viewport"
      /\ AttachLookup(vp.target, vdom.present) = "CannotFind")
       => vlast'.out = "CannotFind"]_vars

\* C32: every scanner built after at least one addReader call lists exactly
\* the addReader arguments so far, in call order, whatever build() calls
\* came in between.
C32_DefaultOnlyWhenNoneAdded ==
  (blog.op = "build" /\ blog.added # <<>>)
    => Readers(built[Len(built)]) = blog.added

\* C33: show() directly after hide() gives the viewport the display it had
\* before the hide(), the flex layout of the auto CSS sheet included.
C33_HideShowRoundTrip ==
  [][(vlast.op = "hide" /\ vlast.out # "none" /\ vlast'.op = "show")
       => EffectiveDisplay(vp'.isAutoCssApplied, vdom'.display) = vlast.out]_vars

\* C34: in the polling scanner numWaiting equals the number of scanCode()
\* calls that are waiting for a result, and is never negative.
C34_NumWaitingCountsWaiters ==
  /\ pl.numWaiting >= 0
  /\ pl.numWaiting = Cardinality({w \in Waiters : pw[w].st = "waiting"})

\* C35: a scanCode() call of the polling scanner that was waiting when
\* stop() was invoked fails with 'Scanner received stop command' at its next
\* poll, whatever was called in between.
C35_StoppedWaiterFails ==
  [][(plast'.op = "poll" /\ pw[plast'.w].st = "waiting" /\ pw[plast'.w].stopped)
       => plast'.out = "StopCommand"]_vars
====
